---- MODULE Spec2Model ----
(***************************************************************************)
(* Model of app.py: the GBIF occurrence query function                     *)
(* get_gbif_occurrences (query builder, HTTP GET, response flattener) and  *)
(* the Streamlit script that calls it once per run and renders the result. *)
(*                                                                         *)
(* Text that the code formats or exports (the year and bounding-box        *)
(* parameters, the CSV download) is a sequence of one-character strings,   *)
(* so that formatting and quoting are computed and not assumed.            *)
(***************************************************************************)
EXTENDS Integers, Sequences, FiniteSets, TLC

VARIABLES pc, species_name, limit, year_range, bbox, params, gets, response,
          data, records, idx, df, ui, shown, csv, charts, discarded

vars == <<pc, species_name, limit, year_range, bbox, params, gets, response,
          data, records, idx, df, ui, shown, csv, charts, discarded>>

(***************************************************************************)
(* Bounds of the model.                                                    *)
(***************************************************************************)
\* longest results list that is enumerated in full
MaxResults == 2
\* length of the one long results list (longer than the table preview)
BigLen == 51

(***************************************************************************)
(* Python values.                                                          *)
(***************************************************************************)
\* None and the empty tuple: both are falsy in `if year_range:` / `if bbox:`
PyNone == <<>>

\* a truth test on the members instead of on the tuple
TruthyAnyNonZero(t) == \E i \in 1..Len(t) : t[i] # 0

\* truth value of a tuple-or-None argument (app.py:17, app.py:21)
Truthy(t) == Len(t) > 0

\* JSON values of a result's fields; a key that is not in the dict is Missing
Missing == [t |-> "missing", v |-> 0]
Null == [t |-> "null", v |-> 0]
Num(h) == [t |-> "num", v |-> h]
Str(s) == [t |-> "str", v |-> s]

\* `key in result`
HasKey(result, k) == result[k] # Missing

\* result.get(key) and result[key] for a key that is present: null is None
DictGet(result, k) == IF result[k] = Missing THEN Null ELSE result[k]

(***************************************************************************)
(* Formatting of numbers, as str() / an f-string field does it.            *)
(***************************************************************************)
DigitChars == <<"0", "1", "2", "3", "4", "5", "6", "7", "8", "9">>

RECURSIVE NatStr(_)
NatStr(n) == IF n < 10 THEN <<DigitChars[n + 1]>>
             ELSE NatStr(n \div 10) \o <<DigitChars[(n % 10) + 1]>>

\* str(int)
IntStr(n) == IF n < 0 THEN <<"-">> \o NatStr(0 - n) ELSE NatStr(n)

\* repr of a float given in hundredths: shortest form, at least one decimal
FloatStr(h) ==
    LET a == IF h < 0 THEN 0 - h ELSE h
        frac == a % 100
        fracStr == IF frac % 10 = 0 THEN <<DigitChars[(frac \div 10) + 1]>>
                   ELSE <<DigitChars[(frac \div 10) + 1], DigitChars[(frac % 10) + 1]>>
    IN (IF h < 0 THEN <<"-">> ELSE <<>>) \o NatStr(a \div 100) \o <<".">> \o fracStr

\* a separator with a space
YearTextSpaced(yr) == IntStr(yr[1]) \o <<",", " ">> \o IntStr(yr[2])

\* f"{a},{b}" for two ints (app.py:18)
YearText(yr) == IntStr(yr[1]) \o <<",">> \o IntStr(yr[2])

\* f"{a},{b}" for two floats (app.py:22, app.py:23)
PairText(a, b) == FloatStr(a) \o <<",">> \o FloatStr(b)

(***************************************************************************)
(* Query builder (app.py:10-23).                                           *)
(***************************************************************************)
BaseParams(name, lim) ==
    [scientificName |-> name, limit |-> lim, hasCoordinate |-> "true"]

WithYear(p, yr) == IF Truthy(yr) THEN ("year" :> YearText(yr)) @@ p ELSE p

WithBBox(p, bb) ==
    IF Truthy(bb)
    THEN ("decimalLatitude" :> PairText(bb[1], bb[2])) @@
         ("decimalLongitude" :> PairText(bb[3], bb[4])) @@ p
    ELSE p

BuildParamsOf(name, lim, yr, bb) == WithBBox(WithYear(BaseParams(name, lim), yr), bb)

(***************************************************************************)
(* Inputs: widget values (app.py:51-61) and GBIF responses.                *)
(***************************************************************************)
\* text_input: any text, the empty text included
Species == {"", "Danaus plexippus"}

\* species_name argument of a direct call: any text
NameArgs == Species \cup {" Apis, mellifera "}

\* slider 100..2000, step 100
Limits == {500}

\* range slider 1900..2025: always a pair with start <= end
YearRanges == {<<2000, 2020>>, <<1900, 1900>>}

\* number_input values in hundredths of a degree: <<lat_min, lat_max, lon_min, lon_max>>
BBoxes == {<<0, 0, 0, 0>>, <<-9000, 1225, -13000, 18005>>}

Keys == {"scientificName", "decimalLatitude", "decimalLongitude",
         "country", "eventDate", "basisOfRecord"}

IsoDate == <<"2", "0", "0", "1", "-", "0", "5", "-", "0", "1">>

\* a complete result; its country needs quoting in CSV
RFull == [scientificName |-> Str(<<"a">>), decimalLatitude |-> Num(150),
          decimalLongitude |-> Num(-200), country |-> Str(<<"U", ",", "\"", "\n", "S">>),
          eventDate |-> Str(IsoDate), basisOfRecord |-> Str(<<"H">>)]

RNoLon == [RFull EXCEPT !.decimalLongitude = Missing]

RNoLat == [RFull EXCEPT !.decimalLatitude = Missing]

\* the key is present, its value is null
RNullLat == [RFull EXCEPT !.decimalLatitude = Null]

\* only the coordinates
RBare == [k \in Keys |-> IF k = "decimalLatitude" THEN Num(0)
                         ELSE IF k = "decimalLongitude" THEN Num(1225) ELSE Missing]

\* as RBare, with an empty text for the country
REmptyCountry == [RBare EXCEPT !.country = Str(<<>>)]

Results == {RFull, RNoLon, RNoLat, RNullLat, REmptyCountry}

RECURSIVE SeqsUpTo(_, _)
SeqsUpTo(S, n) ==
    IF n = 0 THEN {<<>>}
    ELSE LET shorter == SeqsUpTo(S, n - 1)
         IN shorter \cup {Append(q, e) : q \in {r \in shorter : Len(r) = n - 1}, e \in S}

BigResults == [i \in 1..BigLen |-> RFull]

ResultLists == SeqsUpTo(Results, MaxResults) \cup {BigResults}

NoBody == [json |-> "none", hasResults |-> FALSE, results |-> <<>>]
InvalidBody == [json |-> "invalid", hasResults |-> FALSE, results |-> <<>>]
ArrayBody == [json |-> "array", hasResults |-> FALSE, results |-> <<>>]
ErrorObject == [json |-> "object", hasResults |-> FALSE, results |-> <<>>]

ObjectBodies == {[json |-> "object", hasResults |-> TRUE, results |-> l] : l \in ResultLists}
                    \cup {ErrorObject}

NoResponse == [kind |-> "none", status |-> 0, body |-> NoBody]

\* requests.get raises (connection error, timeout) or returns a reply; a reply
\* with an error status carries a non-JSON body or a JSON object
Responses ==
    {[kind |-> "exception", status |-> 0, body |-> NoBody]}
    \cup {[kind |-> "reply", status |-> 200, body |-> b] :
             b \in ObjectBodies \cup {InvalidBody, ArrayBody}}
    \cup {[kind |-> "reply", status |-> 500, body |-> b] : b \in {InvalidBody, ErrorObject}}
    \cup {[kind |-> "reply", status |-> 404,
           body |-> [json |-> "object", hasResults |-> TRUE, results |-> <<RBare>>]]}

(***************************************************************************)
(* Response flattener (app.py:28-40) and the table.                        *)
(***************************************************************************)
Columns == <<"species", "lat", "lon", "country", "date", "basisOfRecord">>

\* a test of the latitude alone
KeepLatOnly(result) == HasKey(result, "decimalLatitude")

\* app.py:30
Keep(result) == HasKey(result, "decimalLatitude") /\ HasKey(result, "decimalLongitude")

\* app.py:31-38
Project(result) ==
    [species |-> DictGet(result, "scientificName"),
     lat |-> DictGet(result, "decimalLatitude"),
     lon |-> DictGet(result, "decimalLongitude"),
     country |-> DictGet(result, "country"),
     date |-> DictGet(result, "eventDate"),
     basisOfRecord |-> DictGet(result, "basisOfRecord")]

\* data.get("results", [])
ResultsOf(d) == IF d.hasResults THEN d.results ELSE <<>>

\* pd.DataFrame(records): no rows and no columns for an empty list
DataFrame(recs) == [columns |-> IF recs = <<>> THEN <<>> ELSE Columns, rows |-> recs]

EmptyDF == DataFrame(<<>>)

\* an emptiness test that is off by one
IsEmptyOffByOne(d) == Len(d.rows) <= 1

\* df.empty
IsEmpty(d) == Len(d.rows) = 0 \/ Len(d.columns) = 0

\* df.head(n)
HeadRows(d, n) == [d EXCEPT !.rows = SubSeq(d.rows, 1, IF Len(d.rows) < n THEN Len(d.rows) ELSE n)]

\* rows of the table preview (app.py:82)
PreviewRows == 50

(***************************************************************************)
(* CSV export: df.to_csv(index=False) (app.py:83), minimal quoting,        *)
(* missing values written as the empty field.                              *)
(***************************************************************************)
ColChars(c) ==
    CASE c = "species" -> <<"s", "p", "e", "c", "i", "e", "s">>
      [] c = "lat" -> <<"l", "a", "t">>
      [] c = "lon" -> <<"l", "o", "n">>
      [] c = "country" -> <<"c", "o", "u", "n", "t", "r", "y">>
      [] c = "date" -> <<"d", "a", "t", "e">>
      [] c = "basisOfRecord" -> <<"b", "a", "s", "i", "s", "O", "f", "R", "e", "c", "o", "r", "d">>
      [] c = "year" -> <<"y", "e", "a", "r">>

\* text of a cell: repr of a float, the text itself, nothing for None / NaN
CellText(c) ==
    CASE c.t = "num" -> FloatStr(c.v)
      [] c.t = "str" -> c.v
      [] OTHER -> <<>>

NeedsQuote(s) == \E i \in 1..Len(s) : s[i] \in {",", "\"", "\n", "\r"}

RECURSIVE DoubleQuotes(_)
DoubleQuotes(s) ==
    IF s = <<>> THEN <<>>
    ELSE (IF Head(s) = "\"" THEN <<"\"", "\"">> ELSE <<Head(s)>>) \o DoubleQuotes(Tail(s))

FieldText(s) == IF NeedsQuote(s) THEN <<"\"">> \o DoubleQuotes(s) \o <<"\"">> ELSE s

RECURSIVE JoinFields(_)
JoinFields(fs) ==
    IF fs = <<>> THEN <<>>
    ELSE IF Len(fs) = 1 THEN fs[1]
    ELSE fs[1] \o <<",">> \o JoinFields(Tail(fs))

CsvLine(fs) == JoinFields([i \in 1..Len(fs) |-> FieldText(fs[i])]) \o <<"\n">>

RECURSIVE CsvLines(_, _)
CsvLines(cols, rows) ==
    IF rows = <<>> THEN <<>>
    ELSE CsvLine([i \in 1..Len(cols) |-> CellText(rows[1][cols[i]])]) \o CsvLines(cols, Tail(rows))

to_csv(d) == CsvLine([i \in 1..Len(d.columns) |-> ColChars(d.columns[i])])
                 \o CsvLines(d.columns, d.rows)

(***************************************************************************)
(* Charts (app.py:95-102).                                                 *)
(***************************************************************************)
IsDigit(c) == \E d \in 1..10 : DigitChars[d] = c

DigitVal(c) == (CHOOSE d \in 1..10 : DigitChars[d] = c) - 1

\* pd.to_datetime(date, errors="coerce").dt.year for ISO texts "YYYY-..." :
\* the year as a float, NaN for a missing or unparsable date
YearOf(c) ==
    IF c.t = "str" /\ Len(c.v) >= 4 /\ (\A i \in 1..4 : IsDigit(c.v[i]))
                   /\ (Len(c.v) = 4 \/ c.v[5] = "-")
    THEN Num(100 * (1000 * DigitVal(c.v[1]) + 100 * DigitVal(c.v[2])
                      + 10 * DigitVal(c.v[3]) + DigitVal(c.v[4])))
    ELSE Null

\* df["year"] = ... (app.py:101)
WithYearColumn(d) ==
    [columns |-> Append(d.columns, "year"),
     rows |-> [i \in 1..Len(d.rows) |-> ("year" :> YearOf(d.rows[i].date)) @@ d.rows[i]]]

\* value_counts / groupby.size over the non-missing values of a column
Counts(d, col) ==
    LET vals == {d.rows[i][col] : i \in 1..Len(d.rows)} \ {Null}
    IN [v \in vals |-> Cardinality({i \in 1..Len(d.rows) : d.rows[i][col] = v})]

(***************************************************************************)
(* The script, one action per step.  pc is the position in app.py.         *)
(***************************************************************************)
\* what a run starts from: nothing of the previous run is in scope
FreshRun ==
    /\ params = <<>>
    /\ gets = 0
    /\ response = NoResponse
    /\ data = NoBody
    /\ records = <<>>
    /\ idx = 0
    /\ df = EmptyDF
    /\ ui = <<>>
    /\ shown = EmptyDF
    /\ csv = <<>>
    /\ charts = <<>>

Init ==
    /\ pc = "idle"
    /\ species_name = "Danaus plexippus"
    /\ limit = 500
    /\ year_range = <<2000, 2020>>
    /\ bbox = PyNone
    /\ discarded = EmptyDF
    /\ FreshRun

\* app.py:45-61: a user interaction reruns the script from the top with the
\* current widget values; the table of the previous run is garbage
RunScript ==
    /\ pc \in {"idle", "done", "fault"}
    /\ species_name' \in Species
    /\ limit' \in Limits
    /\ year_range' \in YearRanges
    /\ bbox' \in BBoxes \cup {PyNone}
    /\ discarded' = df
    /\ params' = <<>>
    /\ gets' = 0
    /\ response' = NoResponse
    /\ data' = NoBody
    /\ records' = <<>>
    /\ idx' = 0
    /\ df' = EmptyDF
    /\ ui' = <<>>
    /\ shown' = EmptyDF
    /\ csv' = <<>>
    /\ charts' = <<>>
    /\ pc' = "query"

\* no test of the species name
ShouldQueryAlways(name) == TRUE

\* app.py:64: `if species_name:`
ShouldQuery(name) == name # ""

\* app.py:64-65: the call
CallQuery ==
    /\ pc = "query"
    /\ ShouldQuery(species_name)
    /\ pc' = "build"
    /\ UNCHANGED <<species_name, limit, year_range, bbox, params, gets, response,
                   data, records, idx, df, ui, shown, csv, charts, discarded>>

\* app.py:64: empty species name, nothing is done
SkipQuery ==
    /\ pc = "query"
    /\ ~ShouldQuery(species_name)
    /\ pc' = "done"
    /\ UNCHANGED <<species_name, limit, year_range, bbox, params, gets, response,
                   data, records, idx, df, ui, shown, csv, charts, discarded>>

\* app.py:9-23
BuildParams ==
    /\ pc = "build"
    /\ params' = BuildParamsOf(species_name, limit, year_range, bbox)
    /\ pc' = "get"
    /\ UNCHANGED <<species_name, limit, year_range, bbox, gets, response,
                   data, records, idx, df, ui, shown, csv, charts, discarded>>

\* a request that also raises on an error status
GetRaisesOnStatus(r) == r.kind = "exception" \/ r.status >= 400

\* app.py:25: requests.get raises on a network failure or timeout; an error
\* status does not raise (there is no raise_for_status)
GetRaises(r) == r.kind = "exception"

\* app.py:25
Get ==
    /\ pc = "get"
    /\ gets' = gets + 1
    /\ \E r \in Responses :
          /\ response' = r
          /\ pc' = IF GetRaises(r) THEN "fault" ELSE "json"
    /\ UNCHANGED <<species_name, limit, year_range, bbox, params,
                   data, records, idx, df, ui, shown, csv, charts, discarded>>

\* app.py:26: response.json() raises on a body that is not JSON
JsonRaises(body) == body.json = "invalid"

\* a list that starts from the rows of the previous run
InitialRecordsStale(stale) == stale

\* app.py:28: records = []
InitialRecords(stale) == <<>>

\* app.py:26-28
Json ==
    /\ pc = "json"
    /\ IF JsonRaises(response.body)
       THEN /\ pc' = "fault"
            /\ UNCHANGED <<data, records, idx>>
       ELSE /\ data' = response.body
            /\ records' = InitialRecords(discarded.rows)
            /\ idx' = 1
            /\ pc' = "loop"
    /\ UNCHANGED <<species_name, limit, year_range, bbox, params, gets, response,
                   df, ui, shown, csv, charts, discarded>>

\* app.py:29: data.get on a JSON value that is not an object raises
LoopFault ==
    /\ pc = "loop"
    /\ data.json # "object"
    /\ pc' = "fault"
    /\ UNCHANGED <<species_name, limit, year_range, bbox, params, gets, response,
                   data, records, idx, df, ui, shown, csv, charts, discarded>>

\* app.py:29-38: one iteration of the for loop
LoopStep ==
    /\ pc = "loop"
    /\ data.json = "object"
    /\ idx <= Len(ResultsOf(data))
    /\ LET result == ResultsOf(data)[idx]
       IN records' = IF Keep(result) THEN Append(records, Project(result)) ELSE records
    /\ idx' = idx + 1
    /\ UNCHANGED <<pc, species_name, limit, year_range, bbox, params, gets, response,
                   data, df, ui, shown, csv, charts, discarded>>

\* app.py:40 and the assignment of app.py:65
Return ==
    /\ pc = "loop"
    /\ data.json = "object"
    /\ idx > Len(ResultsOf(data))
    /\ df' = DataFrame(records)
    /\ pc' = "branch"
    /\ UNCHANGED <<species_name, limit, year_range, bbox, params, gets, response,
                   data, records, idx, ui, shown, csv, charts, discarded>>

\* app.py:67-68
Warn ==
    /\ pc = "branch"
    /\ IsEmpty(df)
    /\ ui' = Append(ui, "warning")
    /\ pc' = "done"
    /\ UNCHANGED <<species_name, limit, year_range, bbox, params, gets, response,
                   data, records, idx, df, shown, csv, charts, discarded>>

\* app.py:69-73
Success ==
    /\ pc = "branch"
    /\ ~IsEmpty(df)
    /\ ui' = ui \o <<"success", "tabs">>
    /\ pc' = "tab1"
    /\ UNCHANGED <<species_name, limit, year_range, bbox, params, gets, response,
                   data, records, idx, df, shown, csv, charts, discarded>>

HasNullCoordinate(d) == \E i \in 1..Len(d.rows) : d.rows[i].lat = Null \/ d.rows[i].lon = Null

\* app.py:75-78
Tab1 ==
    /\ pc = "tab1"
    /\ ui' = Append(ui, "map")
    /\ pc' = "tab2"
    /\ UNCHANGED <<species_name, limit, year_range, bbox, params, gets, response,
                   data, records, idx, df, shown, csv, charts, discarded>>

\* app.py:78: st.map may reject a coordinate column that holds a null
Tab1Fault ==
    /\ pc = "tab1"
    /\ HasNullCoordinate(df)
    /\ pc' = "fault"
    /\ UNCHANGED <<species_name, limit, year_range, bbox, params, gets, response,
                   data, records, idx, df, ui, shown, csv, charts, discarded>>

\* an export of the preview
CsvOfPreview(d) == to_csv(HeadRows(d, PreviewRows))

\* app.py:83
CsvOf(d) == to_csv(d)

\* app.py:80-89
Tab2 ==
    /\ pc = "tab2"
    /\ shown' = HeadRows(df, PreviewRows)
    /\ csv' = CsvOf(df)
    /\ ui' = ui \o <<"dataframe", "download">>
    /\ pc' = "tab3"
    /\ UNCHANGED <<species_name, limit, year_range, bbox, params, gets, response,
                   data, records, idx, df, charts, discarded>>

\* app.py:91-105
Tab3 ==
    /\ pc = "tab3"
    /\ df' = WithYearColumn(df)
    /\ charts' = [country_counts |-> Counts(df, "country"),
                  year_counts |-> Counts(df', "year")]
    /\ ui' = ui \o <<"country_chart", "year_chart">>
    /\ pc' = "done"
    /\ UNCHANGED <<species_name, limit, year_range, bbox, params, gets, response,
                   data, records, idx, shown, csv, discarded>>

Next ==
    \/ RunScript
    \/ CallQuery
    \/ SkipQuery
    \/ BuildParams
    \/ Get
    \/ Json
    \/ LoopFault
    \/ LoopStep
    \/ Return
    \/ Warn
    \/ Success
    \/ Tab1
    \/ Tab1Fault
    \/ Tab2
    \/ Tab3

Spec == Init /\ [][Next]_vars

(***************************************************************************)
(* get_gbif_occurrences called on its own, with any arguments (the year    *)
(* range and the bounding box default to None).                            *)
(***************************************************************************)
InitFn ==
    /\ pc = "build"
    /\ species_name \in NameArgs
    /\ limit \in Limits
    /\ year_range \in YearRanges \cup {PyNone}
    /\ bbox \in BBoxes \cup {PyNone}
    /\ discarded = EmptyDF
    /\ FreshRun

NextFn ==
    \/ BuildParams
    \/ Get
    \/ Json
    \/ LoopFault
    \/ LoopStep
    \/ Return

SpecFn == InitFn /\ [][NextFn]_vars

(***************************************************************************)
(* Reading texts back, for the properties below.                           *)
(***************************************************************************)
IsNat(s) == Len(s) > 0 /\ \A i \in 1..Len(s) : IsDigit(s[i])

RECURSIVE NatVal(_)
NatVal(s) == IF s = <<>> THEN 0
             ELSE 10 * NatVal(SubSeq(s, 1, Len(s) - 1)) + DigitVal(s[Len(s)])

\* s is "a,b" for the naturals a and b: one comma, digits only around it
IsNatPair(s, a, b) ==
    \E i \in 1..Len(s) :
       /\ {j \in 1..Len(s) : s[j] = ","} = {i}
       /\ IsNat(SubSeq(s, 1, i - 1)) /\ NatVal(SubSeq(s, 1, i - 1)) = a
       /\ IsNat(SubSeq(s, i + 1, Len(s))) /\ NatVal(SubSeq(s, i + 1, Len(s))) = b

\* s is the decimal text of h hundredths: optional "-", digits, ".", one or two digits
IsDecimal(s, h) ==
    LET neg == Len(s) > 0 /\ s[1] = "-"
        u == IF neg THEN Tail(s) ELSE s
    IN \E i \in 1..Len(u) :
          /\ {j \in 1..Len(u) : u[j] = "."} = {i}
          /\ IsNat(SubSeq(u, 1, i - 1))
          /\ IsNat(SubSeq(u, i + 1, Len(u)))
          /\ Len(u) - i \in {1, 2}
          /\ LET whole == NatVal(SubSeq(u, 1, i - 1))
                 frac == IF Len(u) - i = 1 THEN 10 * NatVal(SubSeq(u, i + 1, Len(u)))
                         ELSE NatVal(SubSeq(u, i + 1, Len(u)))
             IN (IF neg THEN 0 - (100 * whole + frac) ELSE 100 * whole + frac) = h
          /\ (neg => h # 0)

IsDecimalPair(s, a, b) ==
    \E i \in 1..Len(s) :
       /\ {j \in 1..Len(s) : s[j] = ","} = {i}
       /\ IsDecimal(SubSeq(s, 1, i - 1), a)
       /\ IsDecimal(SubSeq(s, i + 1, Len(s)), b)

\* a CSV reader: records end at a line break outside quotes, fields at a comma
\* outside quotes, a doubled quote inside quotes is one quote.
\* ReadRecord reads one record from position i and says where the next starts.
RECURSIVE ReadRecord(_, _, _, _, _)
ReadRecord(s, i, inQuote, field, row) ==
    IF i > Len(s) THEN [fields |-> Append(row, field), next |-> i]
    ELSE IF inQuote
    THEN IF s[i] = "\""
         THEN IF i < Len(s) /\ s[i + 1] = "\""
              THEN ReadRecord(s, i + 2, TRUE, Append(field, "\""), row)
              ELSE ReadRecord(s, i + 1, FALSE, field, row)
         ELSE ReadRecord(s, i + 1, TRUE, Append(field, s[i]), row)
    ELSE IF s[i] = "\"" THEN ReadRecord(s, i + 1, TRUE, field, row)
    ELSE IF s[i] = "," THEN ReadRecord(s, i + 1, FALSE, <<>>, Append(row, field))
    ELSE IF s[i] = "\n" THEN [fields |-> Append(row, field), next |-> i + 1]
    ELSE ReadRecord(s, i + 1, FALSE, Append(field, s[i]), row)

RECURSIVE ReadRecords(_, _, _)
ReadRecords(s, i, rows) ==
    IF i > Len(s) THEN rows
    ELSE LET r == ReadRecord(s, i, FALSE, <<>>, <<>>)
         IN ReadRecords(s, r.next, Append(rows, r.fields))

read_csv(s) == ReadRecords(s, 1, <<>>)

\* position of the script: the function has returned a table in this run
Returned == pc \in {"branch", "tab1", "tab2", "tab3", "done", "fault"} /\ data.json = "object"

\* the CSV of this run has been built
Exported == pc \in {"tab3", "done"} /\ csv # <<>>

\* the six fields of a table row (without a column derived later)
BaseRow(row) == [c \in {Columns[i] : i \in 1..Len(Columns)} |-> row[c]]

BaseRows(d) == [i \in 1..Len(d.rows) |-> BaseRow(d.rows[i])]

\* a field of a result as the table is to carry it: absent when missing or null
FieldOrAbsent(result, k) == IF result[k] \in {Missing, Null} THEN Null ELSE result[k]

ExpectedRow(result) ==
    [species |-> FieldOrAbsent(result, "scientificName"),
     lat |-> FieldOrAbsent(result, "decimalLatitude"),
     lon |-> FieldOrAbsent(result, "decimalLongitude"),
     country |-> FieldOrAbsent(result, "country"),
     date |-> FieldOrAbsent(result, "eventDate"),
     basisOfRecord |-> FieldOrAbsent(result, "basisOfRecord")]

\* the result carries both coordinate fields
HasBothFields(result) ==
    result.decimalLatitude # Missing /\ result.decimalLongitude # Missing

RECURSIVE ExpectedRows(_)
ExpectedRows(results) ==
    IF results = <<>> THEN <<>>
    ELSE (IF HasBothFields(Head(results)) THEN <<ExpectedRow(Head(results))>> ELSE <<>>)
             \o ExpectedRows(Tail(results))

\* the function has built its parameters in this run
ParamsBuilt == pc = "get" \/ gets >= 1

\* the run is over
Ended == pc \in {"done", "fault"}

Rendered == {ui[i] : i \in 1..Len(ui)}

\* the text of a CSV field is the text of a table cell
FieldIs(f, cell) ==
    CASE cell.t = "num" -> IsDecimal(f, cell.v)
      [] cell.t = "str" -> f = cell.v
      [] OTHER -> f = <<>>

\* a CSV field read back (an empty field is an absent value) is the table cell
FieldReadsAs(f, cell) == FieldIs(f, cell) /\ (f = <<>> <=> cell = Null)

(***************************************************************************)
(* Properties.                                                             *)
(***************************************************************************)

\* C1: once get_gbif_occurrences has built its parameters, scientificName is
\* the species name unchanged; with a year range (start, end) the year
\* parameter is the text "start,end" (one comma, digits only, start first);
\* without a year range there is no year parameter.
C1_NameAndYear ==
    pc # "build" =>
        /\ params.scientificName = species_name
        /\ (year_range # PyNone =>
               /\ "year" \in DOMAIN params
               /\ IsNatPair(params.year, year_range[1], year_range[2]))
        /\ (year_range = PyNone => "year" \notin DOMAIN params)

C1_Witness ==
    /\ pc = "get"
    /\ species_name = " Apis, mellifera "
    /\ year_range = <<2000, 2020>>
    /\ params.year = <<"2", "0", "0", "0", ",", "2", "0", "2", "0">>

\* C2: every row of the returned table carries a latitude and a longitude
\* value, and a result that lacks one of them (key missing, or present with
\* the value null) is not in the table.
C2_RowsCarryCoordinates ==
    Returned =>
        /\ \A i \in 1..Len(df.rows) : df.rows[i].lat # Null /\ df.rows[i].lon # Null
        /\ Len(df.rows) = Cardinality({j \in 1..Len(ResultsOf(data)) :
               /\ ResultsOf(data)[j].decimalLatitude \notin {Missing, Null}
               /\ ResultsOf(data)[j].decimalLongitude \notin {Missing, Null}})

\* C3: the exported CSV, read back, has one record per table row after the
\* header and every field of every row is the value the table holds, absent
\* values and texts with commas, quotes and line breaks included.
C3_RoundTrip ==
    Exported =>
        LET parsed == read_csv(csv)
        IN /\ Len(parsed) = Len(df.rows) + 1
           /\ \A i \in 1..Len(df.rows) :
                 /\ Len(parsed[i + 1]) = Len(Columns)
                 /\ \A k \in 1..Len(Columns) :
                       FieldReadsAs(parsed[i + 1][k], df.rows[i][Columns[k]])

\* C4: without a bounding box the parameters hold no decimalLatitude and no
\* decimalLongitude; with a box (lat_min, lat_max, lon_min, lon_max), the
\* all-zero box included, they hold decimalLatitude = "lat_min,lat_max" and
\* decimalLongitude = "lon_min,lon_max".  Danaus plexippus, 2000-2020, no box
\* gives year = "2000,2020" and no coordinate filter.
C4_BoundingBox ==
    ParamsBuilt =>
        /\ (bbox = PyNone =>
               /\ "decimalLatitude" \notin DOMAIN params
               /\ "decimalLongitude" \notin DOMAIN params)
        /\ (bbox # PyNone =>
               /\ "decimalLatitude" \in DOMAIN params
               /\ "decimalLongitude" \in DOMAIN params
               /\ IsDecimalPair(params.decimalLatitude, bbox[1], bbox[2])
               /\ IsDecimalPair(params.decimalLongitude, bbox[3], bbox[4]))
        /\ (species_name = "Danaus plexippus" /\ year_range = <<2000, 2020>> /\ bbox = PyNone =>
               /\ params.year = <<"2", "0", "0", "0", ",", "2", "0", "2", "0">>
               /\ DOMAIN params = {"scientificName", "limit", "hasCoordinate", "year"})

C4_Witness ==
    /\ pc = "get"
    /\ bbox = <<0, 0, 0, 0>>
    /\ params.decimalLatitude = <<"0", ".", "0", ",", "0", ".", "0">>
    /\ params.decimalLongitude = <<"0", ".", "0", ",", "0", ".", "0">>

\* C5: a run whose table has no rows ends normally with the warning as the
\* only thing rendered; the success message, map, table, download and charts
\* are rendered only for a table with at least one row.
C5_ZeroRowsWarning ==
    /\ (Returned /\ Ended /\ Len(df.rows) = 0 => pc = "done" /\ ui = <<"warning">>)
    /\ (Returned /\ Len(df.rows) = 0 => pc # "fault" /\ Rendered \subseteq {"warning"})
    /\ (Rendered \ {"warning"} # {} => Len(df.rows) >= 1)
    /\ ("warning" \in Rendered => Len(df.rows) = 0)

C5_Witness ==
    /\ pc = "done"
    /\ ui = <<"warning">>
    /\ Len(ResultsOf(data)) = 2
    /\ Len(df.rows) = 0

\* C6 as stated: a network failure, an HTTP error status or a body that is
\* not JSON ends the run in a fault with nothing rendered and one request.
C6_FailureIsFault ==
    (\/ response.kind = "exception"
     \/ response.status >= 400
     \/ response.body.json = "invalid")
    => /\ ui = <<>>
       /\ gets = 1
       /\ (Ended => pc = "fault")

\* C6 amended: a request that raises (network failure, timeout) or a body
\* that is not JSON ends the run in a fault with nothing rendered and one
\* request; the status is never looked at, so an error reply with a JSON
\* object is flattened like any other reply and the run renders its outcome.
C6_RaisedFailureIsFault ==
    /\ (/\ response.kind = "exception" \/ response.body.json = "invalid"
        /\ pc # "json")
       => pc = "fault" /\ ui = <<>> /\ gets = 1
    /\ (response.status >= 400 /\ response.body.json = "object" /\ Ended)
       => /\ gets = 1
          /\ ui # <<>>
          /\ BaseRows(df) = ExpectedRows(ResultsOf(response.body))

C6_Witness ==
    /\ pc = "fault"
    /\ response.status = 500
    /\ response.body.json = "invalid"
    /\ gets = 1

\* C7 as stated: every run of the script makes exactly one GET.
C7_OneGetPerRun == Ended => gets = 1

\* C7 amended: a run with a non-empty species name makes exactly one GET, a
\* run with the empty species name makes none, and no run makes a second one.
C7_OneGetUnlessNoName ==
    /\ gets <= 1
    /\ (Ended => gets = IF species_name = "" THEN 0 ELSE 1)

C7_Witness == pc = "done" /\ species_name # "" /\ gets = 1 /\ "year_chart" \in Rendered

\* C8: whatever table an earlier run left behind, the table of a run holds as
\* many rows as its own response has results with both coordinate fields and
\* each row is the projection of one of these results.
C8_OwnResponseOnly ==
    Returned =>
        LET results == ResultsOf(data)
        IN /\ Len(df.rows) = Cardinality({j \in 1..Len(results) : HasBothFields(results[j])})
           /\ \A i \in 1..Len(df.rows) :
                 \E j \in 1..Len(results) :
                    HasBothFields(results[j]) /\ BaseRow(df.rows[i]) = ExpectedRow(results[j])

C8_Witness ==
    /\ pc = "branch"
    /\ Len(discarded.rows) = 2
    /\ Len(df.rows) = 1
    /\ BaseRow(df.rows[1]) \notin {BaseRow(discarded.rows[i]) : i \in 1..2}

C10_CsvAllRowsSixColumns ==
    Exported =>
        LET parsed == read_csv(csv)
        IN /\ parsed[1] = [k \in 1..Len(Columns) |-> ColChars(Columns[k])]
           /\ Len(parsed[1]) = 6
           /\ \A k \in 1..Len(parsed[1]) : parsed[1][k] # <<"y", "e", "a", "r">>
           /\ Len(parsed) = Len(df.rows) + 1
           /\ \A i \in 1..Len(df.rows) :
                 /\ Len(parsed[i + 1]) = 6
                 /\ \A k \in 1..6 : FieldIs(parsed[i + 1][k], df.rows[i][Columns[k]])
           /\ Len(shown.rows) = IF Len(df.rows) < PreviewRows THEN Len(df.rows) ELSE PreviewRows

C10_Witness ==
    /\ pc = "done"
    /\ Len(df.rows) > PreviewRows
    /\ Len(shown.rows) = PreviewRows
    /\ Len(read_csv(csv)) = Len(df.rows) + 1
    /\ "year" \in {df.columns[i] : i \in 1..Len(df.columns)}

====
